---- MODULE Spec2Model ----
\* Model of the message/invite handlers of bot/matrix.go (ewintr/matrix-bots):
\* the conversation store, the per-event handling pipeline of RespondHandler
\* (filter, resolve parent, append/create, completion, send, record reply).
EXTENDS Integers, Sequences, FiniteSets, TLC

\* ---------------------------------------------------------------- bounds
\* Number of inbound message events delivered in one run.
MaxEvents == 3
\* Largest number of candidate choices in one completion response.
MaxChoices == 2
\* Number of membership events delivered in one run.
MaxMember == 3
\* Number of inbound message events delivered when handlers run concurrently.
MaxConcEvents == 2

\* ------------------------------------------------------------- constants
\* id.EventID("") : the blank event id.
NoID == 0
\* A nil *Conversation.
Nil == 0
\* m.config.UserID : the bot's own identity.
UserID == "@bot"
\* Senders of inbound events: the bot itself (echo) and another user.
Senders == {UserID, "@alice"}
Rooms == {"!r1", "!r2"}
Bodies == {"a", "b"}
\* Content of the choice a response ends with.
Texts == {"x"}
\* Content of the choices before the last one.
OtherChoice == "z"
\* openai.ChatMessageRoleUser / openai.ChatMessageRoleAssistant
RoleUser == "user"
RoleAssistant == "assistant"
\* The goroutine on which the syncer invokes the handlers.
Handlers == {"h1"}
\* Goroutines of a runtime that dispatches events concurrently.
ConcHandlers == {"h1", "h2"}

VARIABLES
    heap,           \* allocated Conversation objects: address -> sequence of Message
    conversations,  \* m.conversations: sequence of *Conversation (addresses)
    pc,             \* per handler: "idle", "complete" (in Complete), "send" (in SendMessageEvent)
    evt,            \* per handler: the event being (or last) handled
    conv,           \* per handler: local variable conv (*Conversation)
    seen,           \* per handler: m.conversations as read by the append of line 148
    reply,          \* per handler: local variable reply
    resp,           \* per handler: choices of the completion response in hand
    nextId,         \* next event id the homeserver assigns
    nEvents,        \* inbound message events delivered so far
    pre,            \* per handler: store as it was when the event arrived
    outcome,        \* per handler: how the (last) handling ended
    lastReq,        \* per handler: messages of the completion request issued for the event
    nComp,          \* per handler: completion requests issued for the event
    outbox,         \* per handler: outbound sends attempted for the event
    sentIds,        \* event ids returned by successful sends
    joined,         \* rooms the bot is a member of
    mpc,            \* invite handler: "idle" or "join" (in JoinRoomByID)
    mevt,           \* the membership event being (or last) handled
    mcalls,         \* rooms JoinRoomByID was called with for that event
    mres,           \* how that event's handling ended
    preJoined,      \* joined as it was when that event arrived
    nMember         \* membership events delivered so far

respondVars == <<heap, conversations, pc, evt, conv, seen, reply, resp, nextId, nEvents,
                 pre, outcome, lastReq, nComp, outbox, sentIds>>

inviteVars == <<joined, mpc, mevt, mcalls, mres, preJoined, nMember>>

vars == <<respondVars, inviteVars>>

\* ------------------------------------------------ conversation store
\* Message{EventID, ParentID, Role, Content}
Message(eventID, parentID, role, content) ==
    [EventID |-> eventID, ParentID |-> parentID, Role |-> role, Content |-> content]

\* NewConversation(content.Body): only the body is passed, so the seed
\* message has the zero value for EventID and ParentID.
NewConversation(body) == << Message(NoID, NoID, RoleUser, body) >>

\* (c *Conversation) Add(msg)
Add(c, msg) == Append(c, msg)

\* Does conversation c hold a message with this event id?
Contains(c, id) == \E i \in 1..Len(c) : c[i].EventID = id

\* Conversations.FindByEventID: first registered conversation holding id, or nil.
FindByEventID(cs, hp, id) ==
    IF \E k \in 1..Len(cs) : Contains(hp[cs[k]], id)
    THEN cs[CHOOSE k \in 1..Len(cs) :
                /\ Contains(hp[cs[k]], id)
                /\ \A j \in 1..(k-1) : ~Contains(hp[cs[j]], id)]
    ELSE Nil

\* The fixed system instruction that opens every completion request.
SystemMessage == [Role |-> "system", Content |-> "instruction"]

\* GPT.Complete request shaping: the system instruction, then one
\* (role, content) message per turn, in order.
RequestOf(c) ==
    << SystemMessage >> \o [i \in 1..Len(c) |-> [Role |-> c[i].Role, Content |-> c[i].Content]]

\* Mutant: the first choice is taken instead of the last.
FirstChoice(choices) == choices[1]

\* Choices[len(Choices)-1].Message.Content
LastChoice(choices) == choices[Len(choices)]

\* ------------------------------------------------ RespondHandler pieces
\* Mutant: the sender filter never matches.
IsOwnNever(e) == FALSE

\* evt.Sender != id.UserID(m.config.UserID)
IsOwn(e) == e.Sender = UserID

\* parentID := ""; if relatesTo != nil { parentID = relatesTo.GetReplyTo() }
ParentOf(e) == IF e.HasRelatesTo THEN e.ReplyTo ELSE NoID

\* Mutant: the lookup ignores the parent id and yields the first conversation.
ResolveFirst(cs, hp, parentID) == IF Len(cs) > 0 THEN cs[1] ELSE Nil

\* var conv; if parentID != "" { conv = FindByEventID(parentID) }
Resolve(cs, hp, parentID) ==
    IF parentID # NoID THEN FindByEventID(cs, hp, parentID) ELSE Nil

\* Mutant: the added user message does not carry the event id.
UserMessageBlankID(e, parentID) == Message(NoID, parentID, RoleUser, e.Body)

\* Mutant: the added user message is tagged with the assistant role.
UserMessageWrongRole(e, parentID) == Message(e.ID, parentID, RoleAssistant, e.Body)

\* The user message added on the found path.
UserMessage(e, parentID) == Message(e.ID, parentID, RoleUser, e.Body)

\* Mutant: the new conversation replaces the registered ones.
RegisterReplacing(cs, p) == << p >>

\* Mutant: the new conversation is not registered.
RegisterDropped(cs, p) == cs

\* m.conversations = append(m.conversations, conv)
Register(cs, p) == Append(cs, p)

\* format.RenderMarkdown(reply, true, false) on a text without markup (all of
\* Texts are): the body is the text, the formatted body its HTML paragraph.
RenderMarkdown(text) ==
    [Body |-> text, FormattedBody |-> <<"<p>", text, "</p>">>]

\* Mutant: the reply is marked as a reply to the inbound event's parent.
ReplyEventToParent(e, text) ==
    [RoomID |-> e.RoomID, InReplyTo |-> ParentOf(e),
     Body |-> RenderMarkdown(text).Body,
     FormattedBody |-> RenderMarkdown(text).FormattedBody]

\* formattedReply with RelatesTo.InReplyTo.EventID = eventID, sent to evt.RoomID
ReplyEvent(e, text) ==
    [RoomID |-> e.RoomID, InReplyTo |-> e.ID,
     Body |-> RenderMarkdown(text).Body,
     FormattedBody |-> RenderMarkdown(text).FormattedBody]

\* Mutant: EventID and ParentID of the assistant message are swapped.
AssistantMessageSwapped(respID, text, eventID) ==
    Message(eventID, respID, RoleAssistant, text)

\* The assistant message added after a successful send.
AssistantMessage(respID, text, eventID) ==
    Message(respID, eventID, RoleAssistant, text)

\* ------------------------------------------------------------- inputs
NoEvent == [ID |-> NoID, Sender |-> "", RoomID |-> "", Body |-> "",
            HasRelatesTo |-> FALSE, ReplyTo |-> NoID]

\* Inbound events: a fresh id from the homeserver; the relation, if present,
\* replies to some earlier event (known to the store or not) or is no reply.
Events ==
    { [ID |-> nextId, Sender |-> s, RoomID |-> r, Body |-> b,
       HasRelatesTo |-> hr, ReplyTo |-> p] :
        s \in Senders, r \in Rooms, b \in Bodies, hr \in BOOLEAN,
        p \in 0..(nextId - 1) }

RealEvents == { e \in Events : e.HasRelatesTo \/ e.ReplyTo = NoID }

\* Membership events: for the bot or for another user, in some room.
Memberships == {"invite", "join", "leave"}

NoMemberEvent == [StateKey |-> "", Membership |-> "", RoomID |-> "", Sender |-> ""]

MemberEvents ==
    [StateKey : Senders, Membership : Memberships, RoomID : Rooms, Sender : {"@alice"}]

\* Completion responses: 1..MaxChoices choices, the last of them a reply
\* text, the ones before it the other text.
ChoiceLists ==
    { [i \in 1..n |-> IF i = n THEN t ELSE OtherChoice] :
        n \in 1..MaxChoices, t \in Texts }

\* --------------------------------------------------------------- Init
Init ==
    /\ heap = << >>
    /\ conversations = << >>
    /\ pc = [h \in Handlers |-> "idle"]
    /\ evt = [h \in Handlers |-> NoEvent]
    /\ conv = [h \in Handlers |-> Nil]
    /\ seen = [h \in Handlers |-> << >>]
    /\ reply = [h \in Handlers |-> ""]
    /\ resp = [h \in Handlers |-> << >>]
    /\ nextId = 1
    /\ nEvents = 0
    /\ pre = [h \in Handlers |-> [heap |-> << >>, conversations |-> << >>]]
    /\ outcome = [h \in Handlers |-> "none"]
    /\ lastReq = [h \in Handlers |-> << >>]
    /\ nComp = [h \in Handlers |-> 0]
    /\ outbox = [h \in Handlers |-> << >>]
    /\ sentIds = {}
    /\ joined = {}
    /\ mpc = "idle"
    /\ mevt = NoMemberEvent
    /\ mcalls = << >>
    /\ mres = "none"
    /\ preJoined = {}
    /\ nMember = 0

\* ------------------------------------------------------------ actions
\* Bookkeeping common to every delivery of an inbound message event.
Deliver(h, e) ==
    /\ pc[h] = "idle"
    /\ \A g \in DOMAIN pc : pc[g] = "idle"
    /\ nEvents < MaxEvents
    /\ nEvents' = nEvents + 1
    /\ nextId' = nextId + 1
    /\ evt' = [evt EXCEPT ![h] = e]
    /\ pre' = [pre EXCEPT ![h] = [heap |-> heap, conversations |-> conversations]]
    /\ nComp' = [nComp EXCEPT ![h] = 0]
    /\ outbox' = [outbox EXCEPT ![h] = << >>]
    /\ lastReq' = [lastReq EXCEPT ![h] = << >>]
    /\ reply' = [reply EXCEPT ![h] = ""]
    /\ UNCHANGED <<seen, inviteVars>>

\* Mutant: an error flag left by a failed handling makes the handler skip
\* the next event as well.
ReceiveOwnOrAfterFailure(h) ==
    \E e \in RealEvents :
        /\ IsOwn(e) \/ outcome[h] \in {"compfail", "sendfail"}
        /\ Deliver(h, e)
        /\ outcome' = [outcome EXCEPT ![h] = "filtered"]
        /\ conv' = [conv EXCEPT ![h] = Nil]
        /\ UNCHANGED <<heap, conversations, pc, resp, sentIds>>

\* An event sent by the bot itself: the handler body is skipped.
ReceiveOwn(h) ==
    \E e \in RealEvents :
        /\ IsOwn(e)
        /\ Deliver(h, e)
        /\ outcome' = [outcome EXCEPT ![h] = "filtered"]
        /\ conv' = [conv EXCEPT ![h] = Nil]
        /\ UNCHANGED <<heap, conversations, pc, resp, sentIds>>

\* Parent found: the user message is added to the found conversation, then
\* the handler calls Complete(conv).
ReceiveFound(h) ==
    \E e \in RealEvents :
        LET parentID == ParentOf(e)
            c == Resolve(conversations, heap, parentID)
        IN  /\ ~IsOwn(e)
            /\ c # Nil
            /\ Deliver(h, e)
            /\ heap' = [heap EXCEPT ![c] = Add(heap[c], UserMessage(e, parentID))]
            /\ conv' = [conv EXCEPT ![h] = c]
            /\ pc' = [pc EXCEPT ![h] = "complete"]
            /\ outcome' = [outcome EXCEPT ![h] = "pending"]
            /\ UNCHANGED <<conversations, resp, sentIds>>

\* No parent, or parent not found: a new conversation is allocated from the
\* body and registered, then the handler calls Complete(conv).
ReceiveNew(h) ==
    \E e \in RealEvents :
        LET parentID == ParentOf(e)
            c == Resolve(conversations, heap, parentID)
            p == Len(heap) + 1
        IN  /\ ~IsOwn(e)
            /\ c = Nil
            /\ Deliver(h, e)
            /\ heap' = Append(heap, NewConversation(e.Body))
            /\ conversations' = Register(conversations, p)
            /\ conv' = [conv EXCEPT ![h] = p]
            /\ pc' = [pc EXCEPT ![h] = "complete"]
            /\ outcome' = [outcome EXCEPT ![h] = "pending"]
            /\ UNCHANGED <<resp, sentIds>>

\* The completion request goes out with the conversation's history.
IssueComplete(h) ==
    /\ pc[h] = "complete"
    /\ nComp[h] = 0
    /\ nComp' = [nComp EXCEPT ![h] = 1]
    /\ lastReq' = [lastReq EXCEPT ![h] = RequestOf(heap[conv[h]])]
    /\ UNCHANGED <<heap, conversations, pc, evt, conv, reply, resp, nextId, nEvents,
                   pre, outcome, outbox, sentIds>>
    /\ UNCHANGED <<seen, inviteVars>>

\* Complete returns a reply: the handler builds the reply event and calls
\* SendMessageEvent.
CompleteOk(h) ==
    /\ pc[h] = "complete"
    /\ nComp[h] = 1
    /\ \E choices \in ChoiceLists :
        /\ resp' = [resp EXCEPT ![h] = choices]
        /\ reply' = [reply EXCEPT ![h] = LastChoice(choices)]
        /\ outbox' = [outbox EXCEPT ![h] =
                        Append(outbox[h], ReplyEvent(evt[h], LastChoice(choices)))]
    /\ pc' = [pc EXCEPT ![h] = "send"]
    /\ UNCHANGED <<heap, conversations, evt, conv, nextId, nEvents,
                   pre, outcome, lastReq, nComp, sentIds>>
    /\ UNCHANGED <<seen, inviteVars>>

\* Mutant: the return after a failed completion is missing, so the handler
\* goes on to send the empty reply.
CompleteFailNoReturn(h) ==
    /\ pc[h] = "complete"
    /\ nComp[h] = 1
    /\ pc' = [pc EXCEPT ![h] = "send"]
    /\ outcome' = [outcome EXCEPT ![h] = "compfail"]
    /\ outbox' = [outbox EXCEPT ![h] = Append(outbox[h], ReplyEvent(evt[h], ""))]
    /\ UNCHANGED <<heap, conversations, evt, conv, reply, resp, nextId, nEvents,
                   pre, lastReq, nComp, sentIds>>
    /\ UNCHANGED <<seen, inviteVars>>

\* Complete returns an error: log and return.
CompleteFail(h) ==
    /\ pc[h] = "complete"
    /\ nComp[h] = 1
    /\ pc' = [pc EXCEPT ![h] = "idle"]
    /\ outcome' = [outcome EXCEPT ![h] = "compfail"]
    /\ UNCHANGED <<heap, conversations, evt, conv, reply, resp, nextId, nEvents,
                   pre, lastReq, nComp, outbox, sentIds>>
    /\ UNCHANGED <<seen, inviteVars>>

\* SendMessageEvent returns its response: the assistant message is added to
\* conv and the handler returns, dropping the completion response.
SendOk(h) ==
    /\ pc[h] = "send"
    /\ LET respID == nextId
       IN  /\ heap' = [heap EXCEPT ![conv[h]] =
                        Add(heap[conv[h]], AssistantMessage(respID, reply[h], evt[h].ID))]
           /\ sentIds' = sentIds \cup {respID}
    /\ nextId' = nextId + 1
    /\ pc' = [pc EXCEPT ![h] = "idle"]
    /\ outcome' = [outcome EXCEPT ![h] = "replied"]
    /\ resp' = [resp EXCEPT ![h] = << >>]
    /\ UNCHANGED <<conversations, evt, conv, reply, nEvents,
                   pre, lastReq, nComp, outbox>>
    /\ UNCHANGED <<seen, inviteVars>>

\* Mutant: the return after a failed send is missing, so the reply is
\* recorded although nothing was sent.
SendFailNoReturn(h) ==
    /\ pc[h] = "send"
    /\ heap' = [heap EXCEPT ![conv[h]] =
                 Add(heap[conv[h]], AssistantMessage(NoID, reply[h], evt[h].ID))]
    /\ pc' = [pc EXCEPT ![h] = "idle"]
    /\ outcome' = [outcome EXCEPT ![h] = "sendfail"]
    /\ resp' = [resp EXCEPT ![h] = << >>]
    /\ UNCHANGED <<conversations, evt, conv, reply, nextId, nEvents,
                   pre, lastReq, nComp, outbox, sentIds>>
    /\ UNCHANGED <<seen, inviteVars>>

\* Mutant: after a failed send the handler blocks instead of returning.
SendFailHang(h) ==
    /\ pc[h] = "send"
    /\ pc' = [pc EXCEPT ![h] = "hung"]
    /\ UNCHANGED <<heap, conversations, evt, conv, reply, resp, nextId, nEvents,
                   pre, outcome, lastReq, nComp, outbox, sentIds>>
    /\ UNCHANGED <<seen, inviteVars>>

\* SendMessageEvent returns an error: log and return.
SendFail(h) ==
    /\ pc[h] = "send"
    /\ pc' = [pc EXCEPT ![h] = "idle"]
    /\ outcome' = [outcome EXCEPT ![h] = "sendfail"]
    /\ resp' = [resp EXCEPT ![h] = << >>]
    /\ UNCHANGED <<heap, conversations, evt, conv, reply, nextId, nEvents,
                   pre, lastReq, nComp, outbox, sentIds>>
    /\ UNCHANGED <<seen, inviteVars>>

Next ==
    \E h \in Handlers :
        \/ ReceiveOwn(h)
        \/ ReceiveFound(h)
        \/ ReceiveNew(h)
        \/ IssueComplete(h)
        \/ CompleteOk(h)
        \/ CompleteFail(h)
        \/ SendOk(h)
        \/ SendFail(h)

Spec == Init /\ [][Next]_vars

\* The handler is straight-line code: once called, Complete is issued, and
\* each of the two blocking calls is taken to return, with or without error.
Fairness ==
    \A h \in Handlers :
        /\ WF_vars(IssueComplete(h))
        /\ WF_vars(CompleteOk(h) \/ CompleteFail(h))
        /\ WF_vars(SendOk(h) \/ SendFail(h))

FairSpec == Spec /\ Fairness

\* ------------------------------------- RespondHandler, concurrent dispatch
\* The handler has no lock (Matrix holds none): when a runtime runs two
\* handler invocations at once, the lookup, the Add and the two halves of
\* m.conversations = append(m.conversations, conv) are separate steps.
InitConc ==
    /\ heap = << >>
    /\ conversations = << >>
    /\ pc = [h \in ConcHandlers |-> "idle"]
    /\ evt = [h \in ConcHandlers |-> NoEvent]
    /\ conv = [h \in ConcHandlers |-> Nil]
    /\ seen = [h \in ConcHandlers |-> << >>]
    /\ reply = [h \in ConcHandlers |-> ""]
    /\ resp = [h \in ConcHandlers |-> << >>]
    /\ nextId = 1
    /\ nEvents = 0
    /\ pre = [h \in ConcHandlers |-> [heap |-> << >>, conversations |-> << >>]]
    /\ outcome = [h \in ConcHandlers |-> "none"]
    /\ lastReq = [h \in ConcHandlers |-> << >>]
    /\ nComp = [h \in ConcHandlers |-> 0]
    /\ outbox = [h \in ConcHandlers |-> << >>]
    /\ sentIds = {}
    /\ joined = {}
    /\ mpc = "idle"
    /\ mevt = NoMemberEvent
    /\ mcalls = << >>
    /\ mres = "none"
    /\ preJoined = {}
    /\ nMember = 0

\* An event is handed to an idle handler goroutine; its own events are
\* filtered, for the others the parent id is extracted.
ConcBegin(h) ==
    \E e \in RealEvents :
        /\ pc[h] = "idle"
        /\ nEvents < MaxConcEvents
        /\ nEvents' = nEvents + 1
        /\ nextId' = nextId + 1
        /\ evt' = [evt EXCEPT ![h] = e]
        /\ pre' = [pre EXCEPT ![h] = [heap |-> heap, conversations |-> conversations]]
        /\ nComp' = [nComp EXCEPT ![h] = 0]
        /\ outbox' = [outbox EXCEPT ![h] = << >>]
        /\ lastReq' = [lastReq EXCEPT ![h] = << >>]
        /\ reply' = [reply EXCEPT ![h] = ""]
        /\ conv' = [conv EXCEPT ![h] = Nil]
        /\ seen' = [seen EXCEPT ![h] = << >>]
        /\ pc' = [pc EXCEPT ![h] = IF IsOwn(e) THEN "idle" ELSE "find"]
        /\ outcome' = [outcome EXCEPT ![h] = IF IsOwn(e) THEN "filtered" ELSE "pending"]
        /\ UNCHANGED <<heap, conversations, resp, sentIds, inviteVars>>

\* conv = m.conversations.FindByEventID(parentID), if parentID is not blank.
ConcFind(h) ==
    /\ pc[h] = "find"
    /\ LET c == Resolve(conversations, heap, ParentOf(evt[h]))
       IN  /\ conv' = [conv EXCEPT ![h] = c]
           /\ pc' = [pc EXCEPT ![h] = IF c # Nil THEN "add" ELSE "new"]
    /\ UNCHANGED <<heap, conversations, evt, seen, reply, resp, nextId, nEvents,
                   pre, outcome, lastReq, nComp, outbox, sentIds, inviteVars>>

\* conv.Add(user message) on the found conversation.
ConcAdd(h) ==
    /\ pc[h] = "add"
    /\ heap' = [heap EXCEPT ![conv[h]] =
                  Add(heap[conv[h]], UserMessage(evt[h], ParentOf(evt[h])))]
    /\ pc' = [pc EXCEPT ![h] = "complete"]
    /\ UNCHANGED <<conversations, evt, conv, seen, reply, resp, nextId, nEvents,
                   pre, outcome, lastReq, nComp, outbox, sentIds, inviteVars>>

\* conv = NewConversation(body); append reads m.conversations.
ConcNew(h) ==
    /\ pc[h] = "new"
    /\ heap' = Append(heap, NewConversation(evt[h].Body))
    /\ conv' = [conv EXCEPT ![h] = Len(heap) + 1]
    /\ seen' = [seen EXCEPT ![h] = conversations]
    /\ pc' = [pc EXCEPT ![h] = "register"]
    /\ UNCHANGED <<conversations, evt, reply, resp, nextId, nEvents,
                   pre, outcome, lastReq, nComp, outbox, sentIds, inviteVars>>

\* The result of append is stored into m.conversations.
ConcRegister(h) ==
    /\ pc[h] = "register"
    /\ conversations' = Register(seen[h], conv[h])
    /\ pc' = [pc EXCEPT ![h] = "complete"]
    /\ UNCHANGED <<heap, evt, conv, seen, reply, resp, nextId, nEvents,
                   pre, outcome, lastReq, nComp, outbox, sentIds, inviteVars>>

ConcNext ==
    \E h \in ConcHandlers :
        \/ ConcBegin(h)
        \/ ConcFind(h)
        \/ ConcAdd(h)
        \/ ConcNew(h)
        \/ ConcRegister(h)
        \/ IssueComplete(h)
        \/ CompleteOk(h)
        \/ CompleteFail(h)
        \/ SendOk(h)
        \/ SendFail(h)

ConcSpec == InitConc /\ [][ConcNext]_vars

\* ------------------------------------------------------ InviteHandler
\* Mutant: every invite is accepted, whoever it is addressed to.
ShouldJoinAnyInvite(e) == e.Membership = "invite"

\* evt.GetStateKey() == m.client.UserID.String() &&
\* evt.Content.AsMember().Membership == event.MembershipInvite
ShouldJoin(e) == e.StateKey = UserID /\ e.Membership = "invite"

\* Bookkeeping common to every delivery of a membership event.
DeliverMember(e) ==
    /\ mpc = "idle"
    /\ nMember < MaxMember
    /\ nMember' = nMember + 1
    /\ mevt' = e
    /\ preJoined' = joined
    /\ UNCHANGED respondVars

\* A membership event that is no invite of the bot: nothing is done.
MemberIgnored ==
    \E e \in MemberEvents :
        /\ ~ShouldJoin(e)
        /\ DeliverMember(e)
        /\ mcalls' = << >>
        /\ mres' = "ignored"
        /\ UNCHANGED <<joined, mpc>>

\* An invite of the bot: the handler calls JoinRoomByID(evt.RoomID).
InviteReceived ==
    \E e \in MemberEvents :
        /\ ShouldJoin(e)
        /\ DeliverMember(e)
        /\ mcalls' = << e.RoomID >>
        /\ mres' = "pending"
        /\ mpc' = "join"
        /\ UNCHANGED joined

\* JoinRoomByID returns without error: log "Joined room after invite".
JoinOk ==
    /\ mpc = "join"
    /\ joined' = joined \cup {mcalls[Len(mcalls)]}
    /\ mres' = "joined"
    /\ mpc' = "idle"
    /\ UNCHANGED <<mevt, mcalls, preJoined, nMember>>
    /\ UNCHANGED respondVars

\* JoinRoomByID returns an error: log "Failed to join room after invite".
JoinFail ==
    /\ mpc = "join"
    /\ mres' = "failed"
    /\ mpc' = "idle"
    /\ UNCHANGED <<joined, mevt, mcalls, preJoined, nMember>>
    /\ UNCHANGED respondVars

InviteNext ==
    \/ MemberIgnored
    \/ InviteReceived
    \/ JoinOk
    \/ JoinFail

\* The invite handler alone: it shares no state with the message handler.
InviteSpec == Init /\ [][InviteNext]_vars

\* ============================================================ claims
\* Vocabulary of the claims, stated on the event and on the store as it was
\* when the event arrived, independently of the handler's own branches.
Handled(h) == outcome[h] # "none"

FromUser(h) == evt[h].Sender # UserID

\* The inbound event's reply-to parent id (blank when it replies to nothing).
PId(h) == evt[h].ReplyTo

Registered(cs) == { cs[k] : k \in 1..Len(cs) }

\* Conversations that held a turn with the parent's id when the event arrived.
Owners(h) ==
    { p \in Registered(pre[h].conversations) :
        \E i \in 1..Len(pre[h].heap[p]) : pre[h].heap[p][i].EventID = PId(h) }

Resolvable(h) == PId(h) # NoID /\ Owners(h) # {}

\* Turns conversation p had when the event arrived (none if it did not exist).
Before(h, p) == IF p \in 1..Len(pre[h].heap) THEN pre[h].heap[p] ELSE << >>

\* The turns p has gained since the event arrived.
Gained(h, p) == SubSeq(heap[p], Len(Before(h, p)) + 1, Len(heap[p]))

InboundTurn(h) ==
    [EventID |-> evt[h].ID, ParentID |-> PId(h), Role |-> "user", Content |-> evt[h].Body]

AssistantTurns ==
    { <<p, i>> \in (1..Len(heap)) \X (1..(2 * MaxEvents)) :
        /\ p \in Registered(conversations)
        /\ i <= Len(heap[p])
        /\ heap[p][i].Role = "assistant" }

\* C1 (thread resolution): an event from another user whose parent id is the
\* id of a turn held by conversation C gets its user turn {event id, parent
\* id, user, body} appended at the end of C, no conversation is created, and
\* a lookup by the event's id then returns C.
C1_ThreadResolution ==
    \A h \in DOMAIN pc :
        (Handled(h) /\ FromUser(h) /\ Resolvable(h)) =>
            \E C \in Owners(h) :
                /\ Len(Gained(h, C)) >= 1
                /\ Gained(h, C)[1] = InboundTurn(h)
                /\ SubSeq(heap[C], 1, Len(Before(h, C))) = Before(h, C)
                /\ (pc[h] = "complete" => heap[C] = Append(Before(h, C), InboundTurn(h)))
                /\ conversations = pre[h].conversations
                /\ Len(heap) = Len(pre[h].heap)
                /\ FindByEventID(conversations, heap, evt[h].ID) = C

\* C1 witness: a reply to a turn the store holds has been appended.
C1_Witness ==
    \E h \in DOMAIN pc :
        /\ Handled(h) /\ FromUser(h) /\ Resolvable(h)
        /\ pc[h] = "complete"
        /\ FindByEventID(conversations, heap, evt[h].ID) # Nil

\* C2 (new-conversation fallback): for an event from another user whose parent
\* id is blank or held by no conversation, one new conversation is created and
\* registered, and while the completion request is issued it holds exactly one
\* turn, a user turn with the event's body, which is all the request carries.
C2_NewConversation ==
    \A h \in DOMAIN pc :
        (pc[h] = "complete" /\ FromUser(h) /\ ~Resolvable(h)) =>
            /\ conv[h] \notin Registered(pre[h].conversations)
            /\ conv[h] \notin 1..Len(pre[h].heap)
            /\ conversations = Append(pre[h].conversations, conv[h])
            /\ Len(heap[conv[h]]) = 1
            /\ heap[conv[h]][1].Role = "user"
            /\ heap[conv[h]][1].Content = evt[h].Body
            /\ \A p \in 1..Len(pre[h].heap) : heap[p] = pre[h].heap[p]
            /\ (nComp[h] = 1 =>
                    Tail(lastReq[h]) = << [Role |-> "user", Content |-> evt[h].Body] >>)

\* C2 witness: the completion request has been issued for an event whose
\* parent id is set but held by none of the existing conversations.
C2_Witness ==
    \E h \in DOMAIN pc :
        /\ pc[h] = "complete" /\ nComp[h] = 1 /\ FromUser(h)
        /\ PId(h) # NoID /\ Owners(h) = {}
        /\ Len(pre[h].conversations) >= 1

\* C3 (seed turn identity), as claimed: the seed turn of a conversation created
\* for event E carries E's id, so a lookup by E's id returns that conversation.
C3_SeedCarriesEventID ==
    \A h \in DOMAIN pc :
        (Handled(h) /\ FromUser(h) /\ ~Resolvable(h)) =>
            /\ heap[conv[h]][1].EventID = evt[h].ID
            /\ FindByEventID(conversations, heap, evt[h].ID) = conv[h]

\* C4 (self-echo suppression): an event whose sender is the bot itself issues
\* no completion request and no send, and leaves the conversations and all
\* their turns as they were, whatever its body or parent is.
C4_SelfEcho ==
    \A h \in DOMAIN pc :
        (Handled(h) /\ ~FromUser(h)) =>
            /\ pc[h] = "idle"
            /\ nComp[h] = 0
            /\ lastReq[h] = << >>
            /\ outbox[h] = << >>
            /\ heap = pre[h].heap
            /\ conversations = pre[h].conversations

\* C4 witness: the bot's own event, replying to a turn the store holds, was
\* delivered.
C4_Witness ==
    \E h \in DOMAIN pc :
        /\ Handled(h) /\ ~FromUser(h)
        /\ Resolvable(h)

\* C5 (atomic turn pairing), as claimed: after a cycle in which completion and
\* send both succeed the conversation has gained exactly two turns, the user
\* turn with the inbound event's id, then the assistant turn with the sent
\* event's id, the inbound event's id as parent and the reply as content.
C5_TurnPairing ==
    \A h \in DOMAIN pc :
        outcome[h] = "replied" =>
            LET g == Gained(h, conv[h])
            IN  /\ Len(g) = 2
                /\ g[1].EventID = evt[h].ID
                /\ g[1].Role = "user"
                /\ g[1].Content = evt[h].Body
                /\ g[2].EventID \in sentIds
                /\ g[2].ParentID = evt[h].ID
                /\ g[2].Role = "assistant"
                /\ g[2].Content = reply[h]

\* C6, as claimed: after a failed completion nothing was sent and the resolved
\* conversation (the one that held the parent turn) has as many turns as
\* before the event arrived.
C6_CountUnchanged ==
    \A h \in DOMAIN pc :
        (outcome[h] = "compfail" /\ Resolvable(h)) =>
            /\ outbox[h] = << >>
            /\ Len(heap[conv[h]]) = Len(Before(h, conv[h]))

\* C6, amended: after a failed completion nothing was sent, no assistant turn
\* was appended, and the resolved conversation is as it was when the
\* completion request was issued: it holds exactly one turn more than before
\* the event arrived, the inbound user turn.
C6_CompletionFailure ==
    \A h \in DOMAIN pc :
        outcome[h] = "compfail" =>
            LET g == Gained(h, conv[h])
            IN  /\ pc[h] = "idle"
                /\ outbox[h] = << >>
                /\ Len(g) = 1
                /\ g[1].Role = "user"
                /\ g[1].Content = evt[h].Body
                /\ Tail(lastReq[h]) =
                     [i \in 1..Len(heap[conv[h]]) |->
                        [Role |-> heap[conv[h]][i].Role, Content |-> heap[conv[h]][i].Content]]
                /\ \A p \in 1..Len(heap) : p # conv[h] => heap[p] = Before(h, p)

\* C6 witness: a completion has failed for a reply to a held turn.
C6_Witness ==
    \E h \in DOMAIN pc : outcome[h] = "compfail" /\ Resolvable(h)

\* C7 (send failure): after a successful completion and a failed send no
\* assistant turn has been appended to any conversation, and the conversation
\* has gained only the user turn.
C7_SendFailure ==
    \A h \in DOMAIN pc :
        outcome[h] = "sendfail" =>
            LET g == Gained(h, conv[h])
            IN  /\ pc[h] = "idle"
                /\ Len(outbox[h]) = 1
                /\ Len(g) = 1
                /\ g[1].Role = "user"
                /\ g[1].Content = evt[h].Body
                /\ \A p \in 1..Len(heap) : p # conv[h] => heap[p] = Before(h, p)
                /\ \A p \in 1..Len(heap) : \A i \in 1..Len(heap[p]) :
                        heap[p][i].Role = "assistant" =>
                            i <= Len(Before(h, p)) /\ heap[p][i] = Before(h, p)[i]

\* C7 witness: a send has failed for a reply to a held turn, after a
\* completion that returned a reply.
C7_Witness ==
    \E h \in DOMAIN pc :
        /\ outcome[h] = "sendfail" /\ Resolvable(h)
        /\ reply[h] \in Texts

\* C8 (turn ids unique across conversations), as claimed: no turn id is held
\* by two different conversations.
C8_UniqueTurnIDs ==
    \A p, q \in Registered(conversations) :
        p # q =>
            \A i \in 1..Len(heap[p]) : \A j \in 1..Len(heap[q]) :
                heap[p][i].EventID # heap[q][j].EventID

\* C9 (assistant turns only after a successful send): a send is attempted only
\* after the completion request, an assistant turn is appended only by a send
\* that succeeded, each assistant turn's id is the id such a send returned, and
\* there are as many assistant turns as successful sends.
C9_AssistantAfterSend ==
    /\ \A t \in AssistantTurns : heap[t[1]][t[2]].EventID \in sentIds
    /\ Cardinality(AssistantTurns) = Cardinality(sentIds)
    /\ \A h \in DOMAIN pc :
        /\ outbox[h] # << >> => nComp[h] = 1 /\ Len(outbox[h]) = 1
        /\ pc[h] = "send" => outbox[h] # << >> /\ outcome[h] = "pending"
        /\ outcome[h] = "pending" =>
              \A t \in AssistantTurns :
                  t[2] <= Len(Before(h, t[1]))
        /\ outcome[h] = "replied" =>
              LET n == Len(heap[conv[h]])
              IN  /\ outbox[h] # << >>
                  /\ heap[conv[h]][n].Role = "assistant"
                  /\ heap[conv[h]][n].Content = outbox[h][1].Body
                  /\ heap[conv[h]][n].EventID = nextId - 1

\* C9 witness: two replies have been sent and recorded.
C9_Witness ==
    /\ Cardinality(sentIds) = 2
    /\ Cardinality(AssistantTurns) = 2
    /\ \A h \in DOMAIN pc : pc[h] = "idle"

\* C10 (completion request history): the request issued for an event carries,
\* after the system instruction, one message per turn of the conversation in
\* insertion order with the turn's role and content, the last one being the
\* inbound user turn.
C10_RequestHistory ==
    \A h \in DOMAIN pc :
        nComp[h] = 1 =>
            LET msgs == Tail(lastReq[h])
                old == Before(h, conv[h])
            IN  /\ Len(msgs) = Len(old) + 1
                /\ \A i \in 1..Len(old) :
                      msgs[i] = [Role |-> old[i].Role, Content |-> old[i].Content]
                /\ msgs[Len(msgs)] = [Role |-> "user", Content |-> evt[h].Body]
                /\ (pc[h] = "complete" =>
                      /\ Len(msgs) = Len(heap[conv[h]])
                      /\ \A i \in 1..Len(msgs) :
                            msgs[i] = [Role |-> heap[conv[h]][i].Role,
                                       Content |-> heap[conv[h]][i].Content])

\* C10 witness: the history user:a, assistant:x, user:b of the example.
C10_Witness ==
    \E h \in DOMAIN pc :
        /\ nComp[h] = 1
        /\ Tail(lastReq[h]) = << [Role |-> "user", Content |-> "a"],
                                 [Role |-> "assistant", Content |-> "x"],
                                 [Role |-> "user", Content |-> "b"] >>

\* C11 (last-choice selection): of a completion response with N >= 1 choices
\* the reply that is sent, and then recorded, is the content of choice N.
C11_LastChoice ==
    \A h \in DOMAIN pc :
        /\ pc[h] = "send" =>
              /\ Len(resp[h]) >= 1
              /\ reply[h] = resp[h][Len(resp[h])]
              /\ outbox[h][1].Body = resp[h][Len(resp[h])]
        /\ outcome[h] = "replied" =>
              heap[conv[h]][Len(heap[conv[h]])].Content = outbox[h][1].Body

\* C11 witness: a response with two different choices is being sent.
C11_Witness ==
    \E h \in DOMAIN pc :
        /\ pc[h] = "send"
        /\ Len(resp[h]) = 2
        /\ resp[h][1] # resp[h][2]
        /\ outbox[h][1].Body = resp[h][2]

\* What handling event e up to the completion call makes of a store, told
\* from the store and the event alone: <<heap, conversations, handler state>>.
HandledFrom(hp, cs, e) ==
    LET owners == { p \in Registered(cs) :
                      \E i \in 1..Len(hp[p]) : hp[p][i].EventID = e.ReplyTo }
        turn == [EventID |-> e.ID, ParentID |-> e.ReplyTo,
                 Role |-> "user", Content |-> e.Body]
        seed == [EventID |-> NoID, ParentID |-> NoID,
                 Role |-> "user", Content |-> e.Body]
    IN  IF e.Sender = UserID
        THEN <<hp, cs, "idle">>
        ELSE IF e.ReplyTo # NoID /\ owners # {}
        THEN LET C == CHOOSE p \in owners : TRUE
             IN  <<[hp EXCEPT ![C] = Append(hp[C], turn)], cs, "complete">>
        ELSE <<Append(hp, << seed >>), Append(cs, Len(hp) + 1), "complete">>

\* C12 (failures are local, never retried): for each event at most one
\* completion request and at most one send are issued; after a failed
\* completion or send the handler is idle; and every event is handled as the
\* store and the event alone determine, whatever the previous outcome was.
C12_FailuresLocal ==
    [][ /\ \A h \in DOMAIN pc :
            /\ nComp'[h] <= 1
            /\ Len(outbox'[h]) <= 1
            /\ (outcome'[h] \in {"compfail", "sendfail"} => pc'[h] = "idle")
            /\ (pc[h] = "complete" /\ pc'[h] = "idle" => outbox'[h] = << >>)
        /\ \A h \in DOMAIN pc :
            (nEvents' = nEvents + 1 /\ evt'[h].ID = nextId) =>
                <<heap', conversations', pc'[h]>> =
                    HandledFrom(heap, conversations, evt'[h])
      ]_vars

\* C12 witness: after an earlier event's handling failed (a conversation
\* exists, nothing was ever sent) the next event has reached its completion call.
C12_Witness ==
    \E h \in DOMAIN pc :
        /\ pc[h] = "complete" /\ nComp[h] = 1
        /\ Len(pre[h].conversations) >= 1
        /\ sentIds = {}

\* C13 (outbound reply addressing): every message sent while event E is
\* handled goes to E's room, is marked as a reply to E's id and carries the
\* reply text the completion call returned for E.
C13_ReplyAddressing ==
    \A h \in DOMAIN pc :
        \A k \in 1..Len(outbox[h]) :
            /\ outbox[h][k].RoomID = evt[h].RoomID
            /\ outbox[h][k].InReplyTo = evt[h].ID
            /\ outbox[h][k].Body = reply[h]
            /\ outbox[h][k].Body \in Texts
            /\ (pc[h] = "send" => outbox[h][k].Body = resp[h][Len(resp[h])])

\* C13 witness: a reply was sent for an event in room !r2 that itself replies
\* to a turn recorded for a room !r1 event.
C13_Witness ==
    \E h \in DOMAIN pc :
        /\ outcome[h] = "replied" /\ Resolvable(h)
        /\ evt[h].RoomID = "!r2"
        /\ outbox[h][1].InReplyTo # PId(h)

\* C14 (invite handling): a membership event causes a join attempt exactly
\* when its state key is the bot and its membership is invite; then exactly
\* one join, of that event's room, is attempted; a failed join is not retried
\* and leaves the bot outside the room; any other event causes no attempt.
C14_InviteHandling ==
    nMember > 0 =>
        LET addressed == mevt.StateKey = UserID /\ mevt.Membership = "invite"
        IN  /\ addressed => mcalls = << mevt.RoomID >>
            /\ ~addressed => mcalls = << >> /\ mpc = "idle" /\ joined = preJoined
            /\ mpc = "join" => joined = preJoined
            /\ mres = "failed" => mpc = "idle" /\ joined = preJoined
            /\ mres = "joined" => joined = preJoined \cup {mevt.RoomID}
            /\ (addressed /\ mpc = "idle") => mres \in {"joined", "failed"}

\* C14 witness: the join of a room the bot was invited to has failed and the
\* bot is not in that room.
C14_Witness ==
    /\ mres = "failed"
    /\ mevt.RoomID \notin joined
    /\ joined # {}

\* Sequence a is an initial part of sequence b.
IsPrefix(a, b) == Len(a) <= Len(b) /\ SubSeq(b, 1, Len(a)) = a

\* C15 (append-only, never destroyed): in every step each registered
\* conversation stays registered, each turn stays at its position with its
\* id, parent id, role and content, and the store changes only by one new
\* conversation being registered or one turn being appended to one conversation.
C15_AppendOnly ==
    [][ /\ IsPrefix(conversations, conversations')
        /\ Len(heap) <= Len(heap')
        /\ \A p \in 1..Len(heap) : IsPrefix(heap[p], heap'[p])
        /\ \/ heap' = heap /\ conversations' = conversations
           \/ /\ Len(heap') = Len(heap) + 1
              /\ conversations' = Append(conversations, Len(heap'))
           \/ /\ conversations' = conversations
              /\ \E p \in 1..Len(heap) :
                    /\ Len(heap'[p]) = Len(heap[p]) + 1
                    /\ \A q \in 1..Len(heap) : q # p => heap'[q] = heap[q]
      ]_vars

\* C15 witness: two conversations are registered and the first has gained
\* its third turn after the second one was created and answered.
C15_Witness ==
    /\ Len(conversations) = 2
    /\ Len(heap[conversations[1]]) = 3
    /\ Len(heap[conversations[2]]) = 2
    /\ heap[conversations[1]][3].EventID > heap[conversations[2]][2].EventID

\* C16 (atomic store access under concurrent dispatch), as claimed: with two
\* events handled at once no registration is lost: a conversation a handler
\* has created and registered is in the store whenever that handler is past
\* its lookup-and-create sequence.
C16_NoLostRegistration ==
    \A h \in DOMAIN pc :
        (conv[h] # Nil /\ pc[h] \in {"complete", "send", "idle"}) =>
            conv[h] \in Registered(conversations)

\* C17 (turn alternation under serial handling): every assistant turn is
\* immediately preceded, in its conversation, by the user turn of the event it
\* answers: no conversation starts with an assistant turn or holds two
\* assistant turns in a row. (Two user turns in a row do occur: the witness.)
C17_AssistantFollowsUser ==
    \A p \in Registered(conversations) :
        \A i \in 1..Len(heap[p]) :
            heap[p][i].Role = "assistant" =>
                /\ i > 1
                /\ heap[p][i-1].Role = "user"
                /\ heap[p][i].ParentID # NoID
                /\ \/ heap[p][i-1].EventID = heap[p][i].ParentID
                   \/ i = 2 /\ heap[p][1].EventID = NoID

\* C17 witness: after a failed completion or send a conversation holds an
\* assistant turn followed by two user turns in a row.
C17_Witness ==
    /\ \A h \in DOMAIN pc : pc[h] = "idle"
    /\ \E p \in Registered(conversations) :
          /\ Len(heap[p]) = 4
          /\ heap[p][2].Role = "assistant"
          /\ heap[p][3].Role = "user"
          /\ heap[p][4].Role = "user"

\* C18 (one conversation per event): handling an event changes at most one
\* conversation, the single one that held the parent turn or else one newly
\* created; every other conversation is as it was when the event arrived,
\* whatever the completion and send outcomes are.
C18_OneConversationTouched ==
    \A h \in DOMAIN pc :
        Handled(h) =>
            /\ Resolvable(h) => Cardinality(Owners(h)) = 1
            /\ Len(heap) <= Len(pre[h].heap) + 1
            /\ (~FromUser(h) \/ Resolvable(h)) => Len(heap) = Len(pre[h].heap)
            /\ \A p \in 1..Len(pre[h].heap) :
                  (FromUser(h) /\ Resolvable(h) /\ p \in Owners(h)) \/ heap[p] = pre[h].heap[p]

\* C18 witness: with two conversations in the store, a reply to a turn of one
\* of them has been answered.
C18_Witness ==
    \E h \in DOMAIN pc :
        /\ outcome[h] = "replied" /\ Resolvable(h)
        /\ Len(pre[h].conversations) = 2
        /\ heap[conv[h]] # pre[h].heap[conv[h]]

\* C19 (termination): if the completion call and the send call each return,
\* the handling of every event ends, in exactly one of the outcomes filtered,
\* dropped after completion failure, dropped after send failure, or replied
\* with the assistant turn recorded; a handler that has reached the send with
\* a reply ends in one of the last two.
C19_Terminates ==
    \A h \in Handlers :
        /\ (pc[h] # "idle") ~>
              (pc[h] = "idle" /\ outcome[h] \in {"compfail", "sendfail", "replied"})
        /\ (pc[h] = "send") ~>
              (pc[h] = "idle" /\ outcome[h] \in {"sendfail", "replied"})
        /\ [](pc[h] = "idle" /\ outcome[h] # "none" =>
                /\ outcome[h] \in {"filtered", "compfail", "sendfail", "replied"}
                /\ (outcome[h] = "filtered") = (evt[h].Sender = UserID)
                /\ (outcome[h] = "compfail") = (evt[h].Sender # UserID /\ outbox[h] = << >>)
                /\ (outcome[h] = "replied") =>
                      /\ heap[conv[h]][Len(heap[conv[h]])].Role = "assistant"
                      /\ heap[conv[h]][Len(heap[conv[h]])].Content = reply[h]
                      /\ heap[conv[h]][Len(heap[conv[h]])].EventID \in sentIds)

\* C19 witness: a handling has ended with the reply sent and recorded, after
\* an earlier one had been dropped.
C19_Witness ==
    \E h \in DOMAIN pc :
        /\ pc[h] = "idle" /\ outcome[h] = "replied"
        /\ nEvents >= 2
        /\ Cardinality(sentIds) = 1
        /\ Len(pre[h].conversations) >= 1

====
